---- MODULE Spec2Model ----
(***************************************************************************)
(* Railway deployment failure analyzer (railway_deployment_analyzer.py).   *)
(* Log texts, names and tokens are TLA+ strings; str.lower, str.strip,     *)
(* re.search, re.findall and the substring test are computed character by *)
(* character.                                                              *)
(***************************************************************************)
EXTENDS Integers, Sequences, FiniteSets, TLC

VARIABLES
    pc,               \* position of main / run_analysis
    exit_code,        \* NoExitCode while running, 1 after sys.exit(1), 0 after a normal return
    github_token,     \* main: stripped answers to the three prompts
    railway_token,
    github_username,
    repos,            \* get_github_repos: accumulated repository records
    page,             \* get_github_repos: page counter
    received,         \* get_github_repos: what each request answered (observation only)
    railway_projects, \* run_analysis: project records
    idx,              \* run_analysis: 1-based position of the for loop over repos
    analyses,         \* run_analysis: RepoAnalysis records appended so far
    calls,            \* per analysed repository: what analyze_repo invoked (observation only)
    report,           \* NoReport until generate_report has built the report
    logs,             \* analyze_logs harness: the text under classification
    issues,           \* analyze_logs harness: the issue list analyze_logs returned
    tested            \* analyze_logs harness: signatures and phrases tested by the call

vars == <<pc, exit_code, github_token, railway_token, github_username, repos, page, received,
          railway_projects, idx, analyses, calls, report, logs, issues, tested>>

\* Python's None: a value distinct from every string the model draws.
None == "<None>"

\* no report has been generated
NoReport == <<>>

\* the process has not ended: it has no exit code
NoExitCode == -1

\* affected_files of a DeploymentIssue: None, the default of the dataclass,
\* or a list, held as the set of its elements
NoFiles == <<>>
FileList(files) == <<files>>

---------------------------------------------------------------------------
(* Bounds of the model *)

\* most fragments concatenated into one log text of the analyze_logs harness
MaxFrags == 2
\* most repositories the repository source hands out in one run
MaxRepos == 2
\* most projects the project source hands out in one run
MaxProjects == 2

---------------------------------------------------------------------------
(* Strings *)

UpperChars == <<"A","B","C","D","E","F","G","H","I","J","K","L","M",
                "N","O","P","Q","R","S","T","U","V","W","X","Y","Z">>
LowerChars == <<"a","b","c","d","e","f","g","h","i","j","k","l","m",
                "n","o","p","q","r","s","t","u","v","w","x","y","z">>

\* str.lower on one character
LowerOf == [c \in {UpperChars[i] : i \in 1..26} |->
               LowerChars[CHOOSE i \in 1..26 : UpperChars[i] = c]]
LowerChar(c) == IF c \in DOMAIN LowerOf THEN LowerOf[c] ELSE c

\* str.lower
RECURSIVE LowerStr(_)
LowerStr(s) ==
    IF s = "" THEN ""
    ELSE LowerChar(SubSeq(s, 1, 1)) \o LowerStr(SubSeq(s, 2, Len(s)))

\* the characters str.strip removes
IsSpace(c) == c \in {" ", "\n", "\t", "\r"}

\* str.strip: drop leading and trailing whitespace
RECURSIVE LStrip(_)
LStrip(s) ==
    IF s # "" /\ IsSpace(SubSeq(s, 1, 1)) THEN LStrip(SubSeq(s, 2, Len(s))) ELSE s
RECURSIVE RStrip(_)
RStrip(s) ==
    IF s # "" /\ IsSpace(SubSeq(s, Len(s), Len(s)))
    THEN RStrip(SubSeq(s, 1, Len(s) - 1)) ELSE s
Strip(s) == RStrip(LStrip(s))

\* Python's `sub in s`
Contains(sub, s) ==
    \E p \in 1..(Len(s) - Len(sub) + 1) : SubSeq(s, p, p + Len(sub) - 1) = sub

\* str.replace(old, new) for a one-character old
RECURSIVE ReplaceChar(_, _, _)
ReplaceChar(s, old, new) ==
    IF s = "" THEN ""
    ELSE (IF SubSeq(s, 1, 1) = old THEN new ELSE SubSeq(s, 1, 1))
         \o ReplaceChar(SubSeq(s, 2, Len(s)), old, new)

---------------------------------------------------------------------------
(* Regular expressions of the catalog.  Every signature is a list of       *)
(* literal pieces with ".*" between consecutive pieces ("\." is a literal  *)
(* dot inside a piece); "." matches any character but a newline.           *)

NoNewline(text, from, to) == \A k \in from..to : SubSeq(text, k, k) # "\n"

RECURSIVE RestMatch(_, _, _, _)
\* pieces k.. of the signature match text somewhere from pos on, the gap
\* before each piece being taken by ".*"
RestMatch(pieces, k, text, pos) ==
    \/ k > Len(pieces)
    \/ \E q \in pos..(Len(text) - Len(pieces[k]) + 1) :
          /\ SubSeq(text, q, q + Len(pieces[k]) - 1) = pieces[k]
          /\ NoNewline(text, pos, q - 1)
          /\ RestMatch(pieces, k + 1, text, q + Len(pieces[k]))

\* re.search(pattern, text, re.IGNORECASE): both sides compared case-folded
re_search(pattern, text) ==
    LET t  == LowerStr(text)
        ps == [k \in 1..Len(pattern) |-> LowerStr(pattern[k])]
    IN  \E p \in 1..(Len(t) - Len(ps[1]) + 1) :
          /\ SubSeq(t, p, p + Len(ps[1]) - 1) = ps[1]
          /\ RestMatch(ps, 2, t, p + Len(ps[1]))

---------------------------------------------------------------------------
(* File reference extractor: the four patterns of _extract_affected_files, *)
(* each matched the way re.findall does: leftmost match first, greedy       *)
(* repetition with backtracking, alternatives tried in the order written,  *)
(* the scan resuming where the match ended.                                 *)

Ch(t, i) == SubSeq(t, i, i)

\* \s of the file patterns
IsWs(c) == c \in {" ", "\t", "\n", "\r", "\f"}

IsDigit(c) == c \in {"0", "1", "2", "3", "4", "5", "6", "7", "8", "9"}

\* first position from i on that holds no whitespace (Len(t) + 1: none)
SkipWs(t, i) ==
    CHOOSE j \in i..(Len(t) + 1) :
        /\ j = Len(t) + 1 \/ ~IsWs(Ch(t, j))
        /\ \A k \in i..(j - 1) : IsWs(Ch(t, k))

\* last position of the run of non-whitespace that starts at i (i - 1: empty)
RunEnd(t, i) ==
    CHOOSE e \in (i - 1)..Len(t) :
        /\ \A k \in i..e : ~IsWs(Ch(t, k))
        /\ e = Len(t) \/ IsWs(Ch(t, e + 1))

\* last position of the run of digits that starts at i (i - 1: empty)
DigitsEnd(t, i) ==
    CHOOSE e \in (i - 1)..Len(t) :
        /\ \A k \in i..e : IsDigit(Ch(t, k))
        /\ e = Len(t) \/ ~IsDigit(Ch(t, e + 1))

\* (js|ts|jsx|tsx|py|java|cpp|c|h)
file_extensions == <<"js", "ts", "jsx", "tsx", "py", "java", "cpp", "c", "h">>

\* the alternatives that match at p, letter case aside, and, for the fourth
\* pattern, are followed by ":" and a digit
ExtensionsAt(t, p, line_number) ==
    {x \in 1..Len(file_extensions) :
        LET q == p + Len(file_extensions[x])
        IN  /\ q - 1 <= Len(t)
            /\ LowerStr(SubSeq(t, p, q - 1)) = file_extensions[x]
            /\ line_number => (q + 1 <= Len(t) /\ Ch(t, q) = ":" /\ IsDigit(Ch(t, q + 1)))}

NoMatch == [end |-> 0, group |-> ""]

MinOf(S) == CHOOSE x \in S : \A y \in S : x <= y
MaxOf(S) == CHOOSE x \in S : \A y \in S : y <= x

\* the match whose group ends at last: the fourth pattern goes on over ":"
\* and the digits
PathGroup(t, r, last, line_number) ==
    [end   |-> IF line_number THEN DigitsEnd(t, last + 2) + 1 ELSE last + 1,
     group |-> SubSeq(t, r, last)]

\* the dot at d taken, the first alternative that can follow it is taken
PathAtDot(t, r, d, line_number) ==
    PathGroup(t, r, d + Len(file_extensions[MinOf(ExtensionsAt(t, d + 1, line_number))]),
              line_number)

\* the greedy [^\s\n]+ gives back characters down to the rightmost of dots
PathAtDots(t, r, dots, line_number) ==
    IF dots = {} THEN NoMatch ELSE PathAtDot(t, r, MaxOf(dots), line_number)

\* [^\s\n]+\.(js|...) from r on: the dots of the token that start at r, each
\* after at least one character and before an alternative
PathMatch(t, r, line_number) ==
    IF r > Len(t) THEN NoMatch
    ELSE PathAtDots(t, r,
                    {d \in (r + 1)..RunEnd(t, r) :
                        Ch(t, d) = "." /\ ExtensionsAt(t, d + 1, line_number) # {}},
                    line_number)

\* ([^\s\n]+) from r on
TokenGroup(t, r) == [end |-> RunEnd(t, r) + 1, group |-> SubSeq(t, r, RunEnd(t, r))]

\* ":?\s*([^\s\n]+)" after "file", q being the position after it and r the
\* first non-whitespace position after the optional colon
FileLabelRest(t, q, colon, r) ==
    IF r <= Len(t) THEN TokenGroup(t, r)
    ELSE IF colon THEN TokenGroup(t, q)
    ELSE NoMatch

\* r"file:?\s*([^\s\n]+)" at s
FileLabelMatch(t, s) ==
    IF s + 3 > Len(t) \/ LowerStr(SubSeq(t, s, s + 3)) # "file" THEN NoMatch
    ELSE IF s + 4 <= Len(t) /\ Ch(t, s + 4) = ":"
         THEN FileLabelRest(t, s + 4, TRUE, SkipWs(t, s + 5))
         ELSE FileLabelRest(t, s + 4, FALSE, SkipWs(t, s + 4))

\* "\s+(...)" after the keyword, r being the first non-whitespace position
KeywordPathRest(t, q, r) == IF r = q THEN NoMatch ELSE PathMatch(t, r, FALSE)

\* r"at\s+([^\s\n]+\.(js|...))" and r"in\s+(...)" at s
KeywordPathMatch(t, s, keyword) ==
    IF s + 1 > Len(t) \/ LowerStr(SubSeq(t, s, s + 1)) # keyword THEN NoMatch
    ELSE KeywordPathRest(t, s + 2, SkipWs(t, s + 2))

\* r"([^\s\n]+\.(js|...)):\d+" at s
PathLineMatch(t, s) ==
    IF IsWs(Ch(t, s)) THEN NoMatch ELSE PathMatch(t, s, TRUE)

\* file_patterns[k] at s
FilePatternMatch(t, s, k) ==
    CASE k = 1 -> FileLabelMatch(t, s)
      [] k = 2 -> KeywordPathMatch(t, s, "at")
      [] k = 3 -> KeywordPathMatch(t, s, "in")
      [] k = 4 -> PathLineMatch(t, s)

RECURSIVE FindAll(_, _, _)
\* the group of match m, then the matches after it
FindAllAfter(t, m, k) == {m.group} \cup FindAll(t, m.end, k)

\* the leftmost of the positions where the pattern matches is taken
FindAllAmong(t, starts, k) ==
    IF starts = {} THEN {}
    ELSE FindAllAfter(t, FilePatternMatch(t, MinOf(starts), k), k)

\* re.findall(file_patterns[k], logs, re.IGNORECASE) from pos on: the first
\* groups of the successive matches
FindAll(t, pos, k) ==
    FindAllAmong(t, {s \in pos..Len(t) : FilePatternMatch(t, s, k).end # 0}, k)

\* _extract_affected_files(logs, pattern): list(set(files)); the pattern
\* argument is not read
extract_affected_files(text) == UNION {FindAll(text, 1, k) : k \in 1..4}

---------------------------------------------------------------------------
(* Pattern catalog *)

\* self.failure_patterns, in insertion order
failure_patterns == <<
    [type |-> "missing_env_vars",
     patterns |-> << <<"missing environment variable">>,
                     <<"environment variable", "not found">>,
                     <<"process.env.", "is undefined">>,
                     <<"OPENAI_API_KEY", "not found">>,
                     <<"DATABASE_URL", "not found">>,
                     <<"RAILWAY_TOKEN", "not found">> >>,
     severity |-> "critical",
     remediation |-> "Add missing environment variables in Railway dashboard under Variables tab"],
    [type |-> "port_binding",
     patterns |-> << <<"port binding", "failed">>,
                     <<"port", "not bound">>,
                     <<"listen", "EADDRINUSE">>,
                     <<"address already in use">>,
                     <<"port", "required by railway">> >>,
     severity |-> "critical",
     remediation |-> "Ensure your app binds to the PORT environment variable (Railway sets this automatically)"],
    [type |-> "build_failure",
     patterns |-> << <<"build failed">>,
                     <<"npm", "error">>,
                     <<"yarn", "error">>,
                     <<"pnpm", "error">>,
                     <<"typescript", "error">>,
                     <<"compilation", "error">>,
                     <<"module", "not found">>,
                     <<"dependency", "not found">> >>,
     severity |-> "critical",
     remediation |-> "Check package.json dependencies, run 'npm install' locally to verify, ensure all imports are correct"],
    [type |-> "database_connection",
     patterns |-> << <<"database", "connection", "failed">>,
                     <<"prisma", "error">>,
                     <<"connection", "refused">>,
                     <<"database", "not found">>,
                     <<"authentication", "failed">> >>,
     severity |-> "critical",
     remediation |-> "Verify DATABASE_URL is correct, check database is running, ensure proper credentials"],
    [type |-> "memory_limit",
     patterns |-> << <<"out of memory">>,
                     <<"memory", "limit", "exceeded">>,
                     <<"heap", "out", "of", "memory">>,
                     <<"allocation", "failed">> >>,
     severity |-> "warning",
     remediation |-> "Optimize memory usage, consider upgrading Railway plan, add memory monitoring"],
    [type |-> "timeout",
     patterns |-> << <<"timeout">>,
                     <<"request", "timed", "out">>,
                     <<"connection", "timeout">>,
                     <<"operation", "timed", "out">> >>,
     severity |-> "warning",
     remediation |-> "Increase timeout settings, optimize slow operations, check external API responses"],
    [type |-> "file_not_found",
     patterns |-> << <<"file", "not", "found">>,
                     <<"cannot", "find", "module">>,
                     <<"ENOENT">>,
                     <<"no such file", "directory">> >>,
     severity |-> "critical",
     remediation |-> "Check file paths, ensure all required files are committed, verify build output includes all assets"],
    [type |-> "permission_denied",
     patterns |-> << <<"permission", "denied">>,
                     <<"EACCES">>,
                     <<"access", "denied">> >>,
     severity |-> "critical",
     remediation |-> "Check file permissions, ensure Railway has proper access to required files"]
>>

\* analyze_logs: the success phrases, in list order
success_indicators == <<"deployment successful", "build completed", "server started",
                        "listening on port", "application ready">>

---------------------------------------------------------------------------
(* Log classifier *)

\* DeploymentIssue(type, severity, description, remediation, affected_files)
DeploymentIssue(type, severity, description, remediation, affected_files) ==
    [type |-> type, severity |-> severity, description |-> description,
     remediation |-> remediation, affected_files |-> affected_files]

\* CatalogIssue with the file references kept for file_not_found alone
CatalogIssue_files_by_category(config, text) ==
    DeploymentIssue(config.type, config.severity,
                    "Detected " \o ReplaceChar(config.type, "_", " ") \o " issue",
                    config.remediation,
                    IF config.type = "file_not_found"
                    THEN FileList(extract_affected_files(text)) ELSE FileList({}))

\* the issue analyze_logs builds for a category whose signature matched
CatalogIssue(config, text) ==
    DeploymentIssue(config.type, config.severity,
                    "Detected " \o ReplaceChar(config.type, "_", " ") \o " issue",
                    config.remediation, FileList(extract_affected_files(text)))

RECURSIVE FirstMatch(_, _, _)
\* inner loop of analyze_logs: index of the first signature of the category,
\* from k on, that matches; 0 when none does
FirstMatch(config, logs_lower, k) ==
    IF k > Len(config.patterns) THEN 0
    ELSE IF re_search(config.patterns[k], logs_lower) THEN k
    ELSE FirstMatch(config, logs_lower, k + 1)

RECURSIVE CatalogIssues_stop_at_first(_, _, _)
\* CatalogIssues with the `break` leaving both loops
CatalogIssues_stop_at_first(text, logs_lower, c) ==
    IF c > Len(failure_patterns) THEN <<>>
    ELSE IF FirstMatch(failure_patterns[c], logs_lower, 1) # 0
         THEN <<CatalogIssue(failure_patterns[c], text)>>
         ELSE CatalogIssues_stop_at_first(text, logs_lower, c + 1)

RECURSIVE CatalogIssues(_, _, _)
\* outer loop of analyze_logs over the categories c.. of the catalog
CatalogIssues(text, logs_lower, c) ==
    IF c > Len(failure_patterns) THEN <<>>
    ELSE (IF FirstMatch(failure_patterns[c], logs_lower, 1) # 0
          THEN <<CatalogIssue(failure_patterns[c], text)>> ELSE <<>>)
         \o CatalogIssues(text, logs_lower, c + 1)

\* IsBlank without the .strip()
IsBlank_no_strip(text) == text = None \/ text = ""

\* the guard of the early return of analyze_logs
IsBlank(text) == text = None \/ text = "" \/ Strip(text) = ""

NoLogsIssue ==
    DeploymentIssue("no_logs", "warning", "No deployment logs available",
                    "Check Railway dashboard or ensure proper authentication", NoFiles)

UnknownFailureIssue ==
    DeploymentIssue("unknown_failure", "warning",
                    "No clear success or failure indicators found",
                    "Review logs manually in Railway dashboard", NoFiles)

\* analyze_logs testing the success phrases on the text as received
analyze_logs_success_on_raw(text) ==
    IF text = None \/ text = "" \/ Strip(text) = "" THEN <<NoLogsIssue>>
    ELSE LET found       == CatalogIssues(text, LowerStr(text), 1)
             has_success == \E i \in 1..Len(success_indicators) :
                                Contains(success_indicators[i], text)
         IN  IF ~has_success /\ found = <<>> THEN <<UnknownFailureIssue>> ELSE found

\* analyze_logs: the returned issue list
analyze_logs(text) ==
    IF IsBlank(text) THEN <<NoLogsIssue>>
    ELSE LET logs_lower  == LowerStr(text)
             found       == CatalogIssues(text, logs_lower, 1)
             has_success == \E i \in 1..Len(success_indicators) :
                                Contains(success_indicators[i], logs_lower)
         IN  IF ~has_success /\ found = <<>> THEN <<UnknownFailureIssue>> ELSE found

RECURSIVE TestedSignatures(_, _)
\* the signatures analyze_logs hands to re.search, in order, as <<category, index>>
TestedSignatures(logs_lower, c) ==
    IF c > Len(failure_patterns) THEN <<>>
    ELSE LET m    == FirstMatch(failure_patterns[c], logs_lower, 1)
             last == IF m = 0 THEN Len(failure_patterns[c].patterns) ELSE m
         IN  [k \in 1..last |-> <<failure_patterns[c].type, k>>]
             \o TestedSignatures(logs_lower, c + 1)

\* the success phrases any(...) tests before it stops
TestedPhrases(logs_lower) ==
    LET hits == {i \in 1..Len(success_indicators) : Contains(success_indicators[i], logs_lower)}
        last == IF hits = {} THEN Len(success_indicators)
                ELSE CHOOSE i \in hits : \A j \in hits : i <= j
    IN  [k \in 1..last |-> <<"success", k>>]

\* everything one call of analyze_logs tests against the text
analyze_logs_tested(text) ==
    IF IsBlank(text) THEN <<>>
    ELSE TestedSignatures(LowerStr(text), 1) \o TestedPhrases(LowerStr(text))

---------------------------------------------------------------------------
(* Values the collaborators may hand to the program *)

\* answers typed at the three prompts of main, before .strip()
GithubTokenInputs == {"", "  ", "ghp_token"}
RailwayTokenInputs == {"", "rw_token"}
UsernameInputs == {"", "octocat"}

\* repository names of the account (unique within one account)
RepoNames == {"MyApp", "api", "app"}

\* project records of the deployment platform; a missing "id" or "updatedAt"
\* key reads as None through dict.get
ProjectPool == {
    [name |-> "myapp", id |-> "p1", updatedAt |-> "2024-01-01T00:00:00Z"],
    [name |-> "MyApp", id |-> None, updatedAt |-> "2024-02-02T00:00:00Z"],
    [name |-> "api",   id |-> "p3", updatedAt |-> None] }

\* texts of a deployment's logs / of the command-line tool's stdout
LogSamples == {
    "",
    "Error: DATABASE_URL not found\nError: connection refused",
    "Server started\nListening on port 3000" }

\* texts the command-line tool writes to stderr when it exits non-zero
StderrSamples == {"", "No linked project found"}

\* str(e) of an exception raised by subprocess.run other than TimeoutExpired
CliErrorMessages == {"[Errno 2] No such file or directory: 'railway'"}

\* sequences without repetition over S, of length n
RECURSIVE DistinctSeqs(_, _)
DistinctSeqs(S, n) ==
    IF n = 0 THEN {<<>>}
    ELSE UNION { {Append(q, x) : x \in {y \in S : \A k \in 1..Len(q) : q[k] # y}}
                 : q \in DistinctSeqs(S, n - 1) }

DistinctSeqsUpTo(S, n) == UNION {DistinctSeqs(S, k) : k \in 0..n}

---------------------------------------------------------------------------
(* Log source: get_railway_deployment_logs and its two paths *)

\* self.railway_headers is set iff a deployment-platform token was typed
railway_headers == railway_token # ""

\* get_railway_deployment_logs: `self.railway_headers and project_id`
UsesApi(project_id) == railway_headers /\ project_id # None /\ project_id # ""

\* what the remote query can do: raise (transport or HTTP error), answer with
\* no project or no deployment, or answer with a latest deployment whose
\* "logs" value is a text, is missing (read as "") or is null (read as None)
ApiOutcomes ==
    {[path |-> "api", run1 |-> k, run2 |-> None, text |-> None] : k \in {"exception", "no_deployment"}}
    \cup {[path |-> "api", run1 |-> "ok", run2 |-> None, text |-> t] : t \in LogSamples \cup {None}}

\* what the two runs of the command-line tool can do
CliOutcomes ==
    {[path |-> "cli", run1 |-> "timeout", run2 |-> None, text |-> None]}
    \cup {[path |-> "cli", run1 |-> "exception", run2 |-> None, text |-> m] : m \in CliErrorMessages}
    \cup {[path |-> "cli", run1 |-> "ok", run2 |-> None, text |-> t] : t \in LogSamples}
    \cup {[path |-> "cli", run1 |-> "nonzero", run2 |-> "timeout", text |-> None]}
    \cup {[path |-> "cli", run1 |-> "nonzero", run2 |-> "exception", text |-> m] : m \in CliErrorMessages}
    \cup {[path |-> "cli", run1 |-> "nonzero", run2 |-> "ok", text |-> t] : t \in LogSamples}
    \cup {[path |-> "cli", run1 |-> "nonzero", run2 |-> "nonzero", text |-> t] : t \in StderrSamples}

\* _get_railway_logs_api
get_railway_logs_api(o) ==
    IF o.run1 = "ok" THEN o.text ELSE ""

\* _get_railway_logs_cli
get_railway_logs_cli(o) ==
    LET last == IF o.run1 = "nonzero" THEN o.run2 ELSE o.run1
    IN  CASE last = "timeout"   -> "CLI command timed out"
          [] last = "exception" -> "CLI error: " \o o.text
          [] OTHER              -> o.text

\* get_railway_deployment_logs
get_railway_deployment_logs(o) ==
    IF o.path = "api" THEN get_railway_logs_api(o) ELSE get_railway_logs_cli(o)

\* the fetch failed in the glue layer: a transport or process error, a
\* timeout, or a non-zero exit of the tool's last run
FetchFailed(o) ==
    IF o.path = "api" THEN o.run1 = "exception"
    ELSE \/ o.run1 \in {"timeout", "exception"}
         \/ o.run1 = "nonzero" /\ o.run2 \in {"timeout", "exception", "nonzero"}

---------------------------------------------------------------------------
(* analyze_repo *)

RECURSIVE FindProject_last_match(_, _, _)
\* FindProject without the `break`: the last matching project wins
FindProject_last_match(projects, repo_name, k) ==
    IF k > Len(projects) THEN 0
    ELSE LET later == FindProject_last_match(projects, repo_name, k + 1)
         IN  IF later # 0 THEN later
             ELSE IF LowerStr(projects[k].name) = LowerStr(repo_name) THEN k
             ELSE 0

RECURSIVE FindProject_substring(_, _, _)
\* FindProject comparing with `in` instead of `==`
FindProject_substring(projects, repo_name, k) ==
    IF k > Len(projects) THEN 0
    ELSE IF Contains(LowerStr(repo_name), LowerStr(projects[k].name)) THEN k
    ELSE FindProject_substring(projects, repo_name, k + 1)

RECURSIVE FindProject(_, _, _)
\* the matching loop of analyze_repo: index of the first project, from k on,
\* whose lowered name equals the lowered repository name; 0 when none
FindProject(projects, repo_name, k) ==
    IF k > Len(projects) THEN 0
    ELSE IF LowerStr(projects[k].name) = LowerStr(repo_name) THEN k
    ELSE FindProject(projects, repo_name, k + 1)

\* DetermineStatus without the final else: every non-info list is FAILED
DetermineStatus_no_pending(iss) ==
    IF iss = <<>> \/ \A i \in 1..Len(iss) : iss[i].severity = "info" THEN "SUCCESS"
    ELSE "FAILED"

\* the if / elif / else that derives the status from the issues
DetermineStatus(iss) ==
    IF iss = <<>> \/ \A i \in 1..Len(iss) : iss[i].severity = "info" THEN "SUCCESS"
    ELSE IF \E i \in 1..Len(iss) : iss[i].severity = "critical" THEN "FAILED"
    ELSE "PENDING"

\* logs[:500] + "..." if len(logs) > 500 else logs
PreviewLen == 500
LogsPreview(text) ==
    IF Len(text) > PreviewLen THEN SubSeq(text, 1, PreviewLen) \o "..." ELSE text

RepoAnalysis(repo_name, status, iss, last_deployment, logs_preview) ==
    [repo_name |-> repo_name, status |-> status, issues |-> iss,
     last_deployment |-> last_deployment, logs_preview |-> logs_preview]

\* the result analyze_repo returns when no project matches
NoProjectAnalysis(repo_name) ==
    RepoAnalysis(repo_name, "UNKNOWN",
                 <<DeploymentIssue("no_railway_project", "info",
                                   "No matching Railway project found",
                                   "Deploy this repository to Railway or check project naming",
                                   None)>>,
                 None, "No Railway project found")

\* analyze_logs is a pure function of the text: its value on every text the
\* log source can return
FetchedTexts == {get_railway_deployment_logs(o) : o \in ApiOutcomes \cup CliOutcomes}
ClassifiedLogs == [t \in FetchedTexts |-> analyze_logs(t)]

\* the result analyze_repo returns for a matched project and fetched logs
MatchedAnalysis(repo_name, project, text) ==
    LET iss == ClassifiedLogs[text]
    IN  RepoAnalysis(repo_name, DetermineStatus(iss), iss, project.updatedAt,
                     LogsPreview(text))

\* len(logs) on None raises TypeError while the result is being built
AnalyzeRaises(text) == text = None
TypeErrorMessage == "object of type 'NoneType' has no len()"

\* ErrorAnalysis reporting the subject as FAILED
ErrorAnalysis_failed(repo_name, message) ==
    [repo_name |-> repo_name, status |-> "FAILED",
     issues |-> <<[type |-> "analysis_error", severity |-> "warning",
                   description |-> "Error during analysis: " \o message,
                   remediation |-> "Check repository access and try again",
                   affected_files |-> NoFiles]>>,
     last_deployment |-> None, logs_preview |-> ""]

\* the result run_analysis appends when analyze_repo raised
ErrorAnalysis(repo_name, message) ==
    RepoAnalysis(repo_name, "UNKNOWN",
                 <<DeploymentIssue("analysis_error", "warning",
                                   "Error during analysis: " \o message,
                                   "Check repository access and try again", NoFiles)>>,
                 None, "")

\* what one call of analyze_repo invoked: the matched project (0: none), the
\* arguments and outcome of the log fetch, the text handed to analyze_logs
NoOutcome == [path |-> None, run1 |-> None, run2 |-> None, text |-> None]
CallRecord(project, fetched, fetch_name, fetch_id, outcome, classified, text, raised) ==
    [project |-> project, fetched |-> fetched, fetch_name |-> fetch_name,
     fetch_id |-> fetch_id, outcome |-> outcome, classified |-> classified,
     text |-> text, raised |-> raised]

\* the log-source behaviours open to analyze_repo for this repository: none
\* when no project matches, else those of the path the project selects
FetchOutcomes(repo, projects) ==
    LET m == FindProject(projects, repo.name, 1)
    IN  IF m = 0 THEN {NoOutcome}
        ELSE IF UsesApi(projects[m].id) THEN ApiOutcomes ELSE CliOutcomes

\* analyze_repo under the try / except of run_analysis: the RepoAnalysis that
\* is appended, with the record of what the call invoked
analyze_repo(repo, projects, o) ==
    LET m == FindProject(projects, repo.name, 1)
    IN  IF m = 0
        THEN [result |-> NoProjectAnalysis(repo.name),
              call   |-> CallRecord(0, FALSE, None, None, NoOutcome, FALSE, None, FALSE)]
        ELSE LET text == get_railway_deployment_logs(o)
             IN  [result |-> IF AnalyzeRaises(text)
                             THEN ErrorAnalysis(repo.name, TypeErrorMessage)
                             ELSE MatchedAnalysis(repo.name, projects[m], text),
                  call   |-> CallRecord(m, TRUE, projects[m].name, projects[m].id, o,
                                        TRUE, text, AnalyzeRaises(text))]

---------------------------------------------------------------------------
(* generate_report: the summary section and the per-repository blocks *)

Statuses == {"SUCCESS", "FAILED", "PENDING", "UNKNOWN"}

RECURSIVE CountSeverity(_, _)
CountSeverity(iss, sev) ==
    IF iss = <<>> THEN 0
    ELSE (IF Head(iss).severity = sev THEN 1 ELSE 0) + CountSeverity(Tail(iss), sev)

RECURSIVE SumSeverity(_, _)
SumSeverity(as, sev) ==
    IF as = <<>> THEN 0
    ELSE CountSeverity(Head(as).issues, sev) + SumSeverity(Tail(as), sev)

generate_report(as) ==
    [total           |-> Len(as),
     status_counts   |-> [st \in {as[i].status : i \in 1..Len(as)} |->
                             Cardinality({i \in 1..Len(as) : as[i].status = st})],
     critical_issues |-> SumSeverity(as, "critical"),
     warning_issues  |-> SumSeverity(as, "warning"),
     repositories    |-> [i \in 1..Len(as) |-> as[i].repo_name]]

---------------------------------------------------------------------------
(* main and run_analysis *)

\* the repository-limit of the paging loop
RepoLimit == 1000

Init ==
    /\ pc = "main"
    /\ exit_code = NoExitCode
    /\ github_token = None
    /\ railway_token = None
    /\ github_username = None
    /\ repos = <<>>
    /\ page = 1
    /\ received = <<>>
    /\ railway_projects = <<>>
    /\ idx = 1
    /\ analyses = <<>>
    /\ calls = <<>>
    /\ report = NoReport
    /\ logs = None
    /\ issues = <<>>
    /\ tested = <<>>

\* main: the three prompts; a blank token or username ends the process with
\* exit code 1 before anything is fetched
Main ==
    /\ pc = "main"
    /\ \E g \in GithubTokenInputs, r \in RailwayTokenInputs, u \in UsernameInputs :
          IF Strip(g) = ""
          THEN /\ pc' = "exit"
               /\ exit_code' = 1
               /\ github_token' = Strip(g)
               /\ UNCHANGED <<railway_token, github_username>>
          ELSE IF Strip(u) = ""
          THEN /\ pc' = "exit"
               /\ exit_code' = 1
               /\ github_token' = Strip(g)
               /\ railway_token' = Strip(r)
               /\ github_username' = Strip(u)
          ELSE /\ pc' = "get_github_repos"
               /\ github_token' = Strip(g)
               /\ railway_token' = Strip(r)
               /\ github_username' = Strip(u)
               /\ UNCHANGED exit_code
    /\ UNCHANGED <<repos, page, received, railway_projects, idx, analyses, calls, report,
                   logs, issues, tested>>

\* pages the repository source may answer with: records not handed out before
PageAnswers ==
    {q \in DistinctSeqsUpTo({[name |-> n] : n \in RepoNames}, MaxRepos - Len(repos)) :
        \A k \in 1..Len(q) : \A j \in 1..Len(repos) : repos[j] # q[k]}

\* per_page of get_github_repos
per_page == 100

\* what one requests.get of the paging loop can do: raise a RequestException
\* or answer with a page out of pages
Raised == [error |-> TRUE, page_repos |-> <<>>]
Answered(page_repos) == [error |-> FALSE, page_repos |-> page_repos]
RequestAnswers(pages) == {Raised} \cup {Answered(q) : q \in pages}

\* GetGithubReposStep with the limit tested by > in place of >=
GetGithubReposStep_limit_exclusive(answers) ==
    /\ pc = "get_github_repos"
    /\ \E a \in answers :
          /\ received' = Append(received, a)
          /\ IF a.error \/ a.page_repos = <<>>
             THEN /\ pc' = "repos_fetched"
                  /\ UNCHANGED <<repos, page>>
             ELSE /\ repos' = repos \o a.page_repos
                  /\ page' = page + 1
                  /\ pc' = IF Len(repos') > RepoLimit THEN "repos_fetched"
                           ELSE "get_github_repos"
    /\ UNCHANGED <<exit_code, github_token, railway_token, github_username,
                   railway_projects, idx, analyses, calls, report, logs, issues, tested>>

\* get_github_repos: one iteration of the paging loop, the request answering
\* with one of answers. A raised RequestException and an empty page break the
\* loop with what it has; a page is appended whole, then the limit is tested.
GetGithubReposStep(answers) ==
    /\ pc = "get_github_repos"
    /\ \E a \in answers :
          /\ received' = Append(received, a)
          /\ IF a.error \/ a.page_repos = <<>>
             THEN /\ pc' = "repos_fetched"
                  /\ UNCHANGED <<repos, page>>
             ELSE /\ repos' = repos \o a.page_repos
                  /\ page' = page + 1
                  /\ pc' = IF Len(repos') >= RepoLimit THEN "repos_fetched"
                           ELSE "get_github_repos"
    /\ UNCHANGED <<exit_code, github_token, railway_token, github_username,
                   railway_projects, idx, analyses, calls, report, logs, issues, tested>>

\* get_github_repos within a run
GetGithubReposPage == GetGithubReposStep(RequestAnswers(PageAnswers))

\* run_analysis: `if not repos: return`
NoRepos ==
    /\ pc = "repos_fetched"
    /\ repos = <<>>
    /\ pc' = "done"
    /\ exit_code' = 0
    /\ UNCHANGED <<github_token, railway_token, github_username, repos, page, received,
                   railway_projects, idx, analyses, calls, report, logs, issues, tested>>

\* what the project source can do: the remote query raises, answers without
\* data or answers with projects; the command-line tool times out, raises,
\* exits non-zero or prints its projects
ProjectAnswers ==
    IF railway_headers THEN {"exception", "no_data", "ok"}
    ELSE {"timeout", "exception", "nonzero", "ok"}

\* get_railway_projects: both paths degrade every failure to the empty list
get_railway_projects(answer, projects) ==
    IF answer = "ok" THEN projects ELSE <<>>

\* run_analysis: the projects are fetched once the repository list is known
\* not to be empty
GetRailwayProjects ==
    /\ pc = "repos_fetched"
    /\ repos # <<>>
    /\ \E answer \in ProjectAnswers :
          \E projects \in DistinctSeqsUpTo(ProjectPool, MaxProjects) :
             railway_projects' = get_railway_projects(answer, projects)
    /\ pc' = "analyze"
    /\ idx' = 1
    /\ analyses' = <<>>
    /\ UNCHANGED <<exit_code, github_token, railway_token, github_username, repos, page, received,
                   calls, report, logs, issues, tested>>

\* AnalyzeRepo whose except clause appends nothing
AnalyzeRepo_drop_on_error ==
    /\ pc = "analyze"
    /\ idx <= Len(repos)
    /\ \E o \in FetchOutcomes(repos[idx], railway_projects) :
          LET a == analyze_repo(repos[idx], railway_projects, o)
          IN  IF a.call.raised
              THEN UNCHANGED <<analyses, calls>>
              ELSE /\ analyses' = Append(analyses, a.result)
                   /\ calls' = Append(calls, a.call)
    /\ idx' = idx + 1
    /\ UNCHANGED <<pc, exit_code, github_token, railway_token, github_username, repos,
                   page, received, railway_projects, report, logs, issues, tested>>

\* AnalyzeRepo without the try / except: the error ends the run
AnalyzeRepo_no_except ==
    /\ pc = "analyze"
    /\ idx <= Len(repos)
    /\ \E o \in FetchOutcomes(repos[idx], railway_projects) :
          LET a == analyze_repo(repos[idx], railway_projects, o)
          IN  IF a.call.raised
              THEN /\ pc' = "crashed"
                   /\ exit_code' = 1
                   /\ UNCHANGED <<analyses, calls, idx>>
              ELSE /\ analyses' = Append(analyses, a.result)
                   /\ calls' = Append(calls, a.call)
                   /\ idx' = idx + 1
                   /\ UNCHANGED <<pc, exit_code>>
    /\ UNCHANGED <<github_token, railway_token, github_username, repos,
                   page, received, railway_projects, report, logs, issues, tested>>

\* run_analysis: one iteration of `for repo in repos`
AnalyzeRepo ==
    /\ pc = "analyze"
    /\ idx <= Len(repos)
    /\ \E o \in FetchOutcomes(repos[idx], railway_projects) :
          LET a == analyze_repo(repos[idx], railway_projects, o)
          IN  /\ analyses' = Append(analyses, a.result)
              /\ calls' = Append(calls, a.call)
    /\ idx' = idx + 1
    /\ UNCHANGED <<pc, exit_code, github_token, railway_token, github_username, repos,
                   page, received, railway_projects, report, logs, issues, tested>>

\* run_analysis: after the loop, build, print and save the report
GenerateReport ==
    /\ pc = "analyze"
    /\ idx > Len(repos)
    /\ report' = generate_report(analyses)
    /\ pc' = "done"
    /\ exit_code' = 0
    /\ UNCHANGED <<github_token, railway_token, github_username, repos, page, received,
                   railway_projects, idx, analyses, calls, logs, issues, tested>>

Next ==
    \/ Main
    \/ GetGithubReposPage
    \/ NoRepos
    \/ GetRailwayProjects
    \/ AnalyzeRepo
    \/ GenerateReport

Spec == Init /\ [][Next]_vars

\* the program is one sequential process: a step that can be taken is taken
LiveSpec == Spec /\ WF_vars(Next)

---------------------------------------------------------------------------
(* analyze_logs on its own: the text is drawn, then classified *)

Fragments == <<" ", "\n", "Error: DATABASE_URL not found", "connection", "refused",
               "Request timed out", "Server started", "ENOENT", "at src/app.js:10">>

RECURSIVE FragTexts(_)
\* the texts made of at most n fragments
FragTexts(n) ==
    IF n = 0 THEN {""}
    ELSE FragTexts(n - 1) \cup
         {t \o Fragments[i] : t \in FragTexts(n - 1), i \in 1..Len(Fragments)}

ClassifierInit ==
    /\ pc = "classify"
    /\ logs \in FragTexts(MaxFrags) \cup {None}
    /\ issues = <<>>
    /\ tested = <<>>
    /\ exit_code = NoExitCode
    /\ github_token = None
    /\ railway_token = None
    /\ github_username = None
    /\ repos = <<>>
    /\ page = 1
    /\ received = <<>>
    /\ railway_projects = <<>>
    /\ idx = 1
    /\ analyses = <<>>
    /\ calls = <<>>
    /\ report = NoReport

\* one call analyze_logs(logs, repo_name)
Classify ==
    /\ pc = "classify"
    /\ issues' = analyze_logs(logs)
    /\ tested' = analyze_logs_tested(logs)
    /\ pc' = "classified"
    /\ UNCHANGED <<exit_code, github_token, railway_token, github_username, repos, page, received,
                   railway_projects, idx, analyses, calls, report, logs>>

ClassifierSpec == ClassifierInit /\ [][Classify]_vars

---------------------------------------------------------------------------
(* get_github_repos on its own, against a user with many repositories *)

\* the k-th repository record of page p
LongRecord(p, k) == [name |-> "repo" \o ToString((p - 1) * per_page + k)]

\* sizes of the pages the repository source answers with: the empty page, a
\* full page and a page one record short
PageSizes == {0, per_page - 1, per_page}

\* the pages the repository source can answer the request for page p with
LongPages(p) == {[k \in 1..n |-> LongRecord(p, k)] : n \in PageSizes}

\* the state at the call self.get_github_repos(github_username)
PagingInit ==
    /\ pc = "get_github_repos"
    /\ exit_code = NoExitCode
    /\ github_token = "ghp_token"
    /\ railway_token = ""
    /\ github_username = "octocat"
    /\ repos = <<>>
    /\ page = 1
    /\ received = <<>>
    /\ railway_projects = <<>>
    /\ idx = 1
    /\ analyses = <<>>
    /\ calls = <<>>
    /\ report = NoReport
    /\ logs = None
    /\ issues = <<>>
    /\ tested = <<>>

\* one iteration of the paging loop
PagingStep == GetGithubReposStep(RequestAnswers(LongPages(page)))

\* every request returns or raises, and the loop then goes on
PagingSpec == PagingInit /\ [][PagingStep]_vars /\ WF_vars(PagingStep)

---------------------------------------------------------------------------
(* Properties of analyze_logs, checked under ClassifierSpec *)

\* the text is a string made of whitespace only (the empty string included)
WhitespaceOnly(text) ==
    text # None /\ \A k \in 1..Len(text) : SubSeq(text, k, k) \in {" ", "\n", "\t", "\r"}

\* the categories, by catalog position, with at least one signature that
\* matches the text
MatchingCategories(text) ==
    {c \in 1..Len(failure_patterns) :
        \E k \in 1..Len(failure_patterns[c].patterns) :
            re_search(failure_patterns[c].patterns[k], text)}

\* the text holds at least one success phrase, letter case aside
HasSuccessPhrase(text) ==
    \E i \in 1..Len(success_indicators) : Contains(success_indicators[i], LowerStr(text))

\* catalog position of a category name; 0 for a reserved type
CategoryIndex(type) ==
    IF \E c \in 1..Len(failure_patterns) : failure_patterns[c].type = type
    THEN CHOOSE c \in 1..Len(failure_patterns) : failure_patterns[c].type = type
    ELSE 0

\* C3: for every empty or whitespace-only text analyze_logs returns exactly
\* one issue, of type no_logs and severity warning, and tests no catalog
\* signature and no success phrase.
C3_BlankGivesNoLogs ==
    (pc = "classified" /\ WhitespaceOnly(logs)) =>
        /\ Len(issues) = 1
        /\ issues[1].type = "no_logs"
        /\ issues[1].severity = "warning"
        /\ tested = <<>>

\* a whitespace-only text that is not the empty string has been classified
C3_Witness ==
    pc = "classified" /\ logs = " \n" /\ Len(issues) = 1 /\ issues[1].type = "no_logs"

\* C4: for every non-blank text the catalog issues are exactly the categories
\* with a matching signature: one issue per such category, none for any
\* other, in catalog order, each with the category's severity and remediation.
C4_OneIssuePerMatchingCategory ==
    (pc = "classified" /\ logs # None /\ ~WhitespaceOnly(logs)) =>
        LET catalog == SelectSeq(issues, LAMBDA i : i.type # "unknown_failure")
            matched == MatchingCategories(logs)
        IN  /\ {catalog[i].type : i \in 1..Len(catalog)} =
                   {failure_patterns[c].type : c \in matched}
            /\ Len(catalog) = Cardinality(matched)
            /\ \A i, j \in 1..Len(catalog) :
                   i < j => CategoryIndex(catalog[i].type) < CategoryIndex(catalog[j].type)
            /\ \A i \in 1..Len(catalog) :
                   LET c == CategoryIndex(catalog[i].type)
                   IN  /\ c # 0
                       /\ catalog[i].severity = failure_patterns[c].severity
                       /\ catalog[i].remediation = failure_patterns[c].remediation

\* a text matching a file_not_found signature ahead of a timeout signature has
\* been classified into two issues, in catalog order
C4_Witness ==
    /\ pc = "classified"
    /\ logs = "ENOENTRequest timed out"
    /\ Cardinality(MatchingCategories(logs)) = 2
    /\ Len(issues) = 2
    /\ issues[1].type = "timeout"
    /\ issues[2].type = "file_not_found"

\* C5: for a non-blank text in which no category matches, analyze_logs returns
\* no issue when the text holds a success phrase and exactly one issue, of
\* type unknown_failure and severity warning, when it holds none; when a
\* category matches, the issues are the catalog issues alone, with or
\* without a success phrase.
C5_SuccessPhraseOrUnknownFailure ==
    (pc = "classified" /\ logs # None /\ ~WhitespaceOnly(logs)) =>
        IF MatchingCategories(logs) = {}
        THEN IF HasSuccessPhrase(logs)
             THEN issues = <<>>
             ELSE /\ Len(issues) = 1
                  /\ issues[1].type = "unknown_failure"
                  /\ issues[1].severity = "warning"
        ELSE /\ Len(issues) = Cardinality(MatchingCategories(logs))
             /\ \A i \in 1..Len(issues) : CategoryIndex(issues[i].type) # 0

\* a text with a success phrase in capitals and no matching signature has
\* been classified into the empty list
C5_Witness ==
    /\ pc = "classified"
    /\ logs # None
    /\ ~WhitespaceOnly(logs)
    /\ Contains("Server started", logs)
    /\ MatchingCategories(logs) = {}
    /\ issues = <<>>

\* C12: within one call of analyze_logs every catalog issue carries the same
\* set of file references, the one the four file patterns find in the text as
\* received, whatever the category and the signature that matched; that set
\* is exactly the union of the matches of the four patterns, each reference
\* once; the reserved issues no_logs and unknown_failure carry no list.
C12_AffectedFilesDependOnTextOnly ==
    pc = "classified" =>
        /\ \A i, j \in 1..Len(issues) :
               (CategoryIndex(issues[i].type) # 0 /\ CategoryIndex(issues[j].type) # 0)
                   => issues[i].affected_files = issues[j].affected_files
        /\ \A i \in 1..Len(issues) :
               IF CategoryIndex(issues[i].type) # 0
               THEN /\ issues[i].affected_files # NoFiles
                    /\ \A k \in 1..4 : FindAll(logs, 1, k) \subseteq issues[i].affected_files[1]
                    /\ \A f \in issues[i].affected_files[1] :
                           \E k \in 1..4 : f \in FindAll(logs, 1, k)
               ELSE /\ issues[i].type \in {"no_logs", "unknown_failure"}
                    /\ issues[i].affected_files = NoFiles

\* a text matching two categories and naming one file, found by the `at`
\* pattern and by the line-number pattern alike, has been classified: both
\* issues carry that one reference
C12_Witness ==
    /\ pc = "classified"
    /\ logs = "Error: DATABASE_URL not foundat src/app.js:10"
    /\ Len(issues) = 2
    /\ issues[1].type # issues[2].type
    /\ FindAll(logs, 1, 2) = {"src/app.js"}
    /\ FindAll(logs, 1, 4) = {"src/app.js"}
    /\ issues[1].affected_files = FileList({"src/app.js"})
    /\ issues[2].affected_files = FileList({"src/app.js"})

---------------------------------------------------------------------------
(* Properties of analyze_repo and run_analysis, checked under Spec *)

Severities(a) == [k \in 1..Len(a.issues) |-> a.issues[k].severity]
IssueTypes(a) == [k \in 1..Len(a.issues) |-> a.issues[k].type]

\* the aggregation rule: SUCCESS for no issue or info issues only, FAILED for
\* a critical issue, PENDING otherwise
AggregationRule(sevs) ==
    CASE \A k \in 1..Len(sevs) : sevs[k] = "info"     -> "SUCCESS"
      [] \E k \in 1..Len(sevs) : sevs[k] = "critical" -> "FAILED"
      [] OTHER                                        -> "PENDING"

\* positions of the projects whose name equals the name of the i-th
\* repository, letter case aside
MatchingProjects(i) ==
    {k \in 1..Len(railway_projects) :
        LowerStr(railway_projects[k].name) = LowerStr(repos[i].name)}

\* C1: for every subject matched to a project, the status is SUCCESS when the
\* issue list is empty or all info, FAILED when an issue is critical, PENDING
\* otherwise; empty logs give the single warning issue no_logs and PENDING.
C1_StatusOfMatchedSubject ==
    \A i \in 1..Len(analyses) :
        (MatchingProjects(i) # {} /\ ~calls[i].raised) =>
            LET sevs == Severities(analyses[i])
                st   == analyses[i].status
                crit == \E k \in 1..Len(sevs) : sevs[k] = "critical"
                info == \A k \in 1..Len(sevs) : sevs[k] = "info"
            IN  /\ info => st = "SUCCESS"
                /\ crit => st = "FAILED"
                /\ (~crit /\ ~info) => st = "PENDING"
                /\ calls[i].text = "" =>
                       /\ IssueTypes(analyses[i]) = <<"no_logs">>
                       /\ sevs = <<"warning">>
                       /\ st = "PENDING"

\* a run has reported one matched subject with empty logs as PENDING and
\* another matched subject as FAILED
C1_Witness ==
    /\ pc = "done"
    /\ \E i, j \in 1..Len(analyses) :
          /\ MatchingProjects(i) # {} /\ calls[i].text = "" /\ analyses[i].status = "PENDING"
          /\ MatchingProjects(j) # {} /\ analyses[j].status = "FAILED"

\* C2 as stated: in every result, by any path, the status is the aggregation
\* rule applied to the severities of its issues.
C2_StatusFromSeverities ==
    \A i \in 1..Len(analyses) :
        analyses[i].status = AggregationRule(Severities(analyses[i]))

\* C2 as amended: the status is a function of the issue list with its types:
\* UNKNOWN when the single issue is no_railway_project or analysis_error, and
\* the aggregation rule applied to the severities in every other result.
C2_StatusFromTypedIssues ==
    \A i \in 1..Len(analyses) :
        analyses[i].status =
            IF IssueTypes(analyses[i]) \in {<<"no_railway_project">>, <<"analysis_error">>}
            THEN "UNKNOWN"
            ELSE AggregationRule(Severities(analyses[i]))

\* two results of one run carry the same severities, one warning, and differ
\* in status: an analysis error (UNKNOWN) and empty logs (PENDING)
C2_Witness ==
    \E i, j \in 1..Len(analyses) :
        /\ IssueTypes(analyses[i]) = <<"analysis_error">>
        /\ IssueTypes(analyses[j]) = <<"no_logs">>
        /\ Severities(analyses[i]) = Severities(analyses[j])
        /\ analyses[i].status = "UNKNOWN"
        /\ analyses[j].status = "PENDING"

\* C6: analyze_repo selects the first project in list order whose name equals
\* the repository name letter case aside, and uses that project's name and
\* identifier for the log fetch and its timestamp for the result.
C6_FirstMatchingProjectUsed ==
    \A i \in 1..Len(calls) :
        MatchingProjects(i) # {} =>
            LET first == railway_projects[MinOf(MatchingProjects(i))]
            IN  /\ calls[i].project = MinOf(MatchingProjects(i))
                /\ calls[i].fetched
                /\ calls[i].fetch_name = first.name
                /\ calls[i].fetch_id = first.id
                /\ calls[i].outcome.path = (IF UsesApi(first.id) THEN "api" ELSE "cli")
                /\ ~calls[i].raised =>
                       /\ analyses[i].repo_name = repos[i].name
                       /\ analyses[i].last_deployment = first.updatedAt

\* a repository matched two projects whose names differ only in case and
\* whose identifiers and timestamps differ; the first one was fetched
C6_Witness ==
    \E i \in 1..Len(calls) :
        /\ Cardinality(MatchingProjects(i)) = 2
        /\ railway_projects[1].name # railway_projects[2].name
        /\ railway_projects[1].id # railway_projects[2].id
        /\ calls[i].fetch_name = railway_projects[1].name
        /\ ~calls[i].raised
        /\ analyses[i].last_deployment = railway_projects[1].updatedAt

\* C7: when no project name equals the repository name letter case aside, the
\* result is UNKNOWN with exactly one issue, no_railway_project of severity
\* info, and neither the log fetch nor the classifier was invoked.
C7_NoProjectGivesUnknown ==
    \A i \in 1..Len(analyses) :
        MatchingProjects(i) = {} =>
            /\ analyses[i].status = "UNKNOWN"
            /\ IssueTypes(analyses[i]) = <<"no_railway_project">>
            /\ Severities(analyses[i]) = <<"info">>
            /\ ~calls[i].fetched
            /\ ~calls[i].classified
            /\ calls[i].outcome = NoOutcome

\* repository "app" was analysed against a project list holding "myapp"
C7_Witness ==
    \E i \in 1..Len(analyses) :
        /\ repos[i].name = "app"
        /\ \E k \in 1..Len(railway_projects) : railway_projects[k].name = "myapp"
        /\ MatchingProjects(i) = {}
        /\ analyses[i].status = "UNKNOWN"

\* C8: whenever the log fetch failed in the glue layer, the text handed to
\* the classifier is the empty string and the subject carries exactly the
\* no_logs issue.
C8_FailedFetchGivesEmptyText ==
    \A i \in 1..Len(calls) :
        (calls[i].fetched /\ FetchFailed(calls[i].outcome)) =>
            /\ calls[i].text = ""
            /\ IssueTypes(analyses[i]) = <<"no_logs">>

\* C9: an error while analysing one repository becomes a result for that
\* repository with status UNKNOWN and exactly one issue, of severity warning,
\* and the loop goes on: the results are one per repository, in the order of
\* the repository list, whichever repositories failed.
C9_ErrorBecomesResult ==
    /\ pc = "analyze" => Len(analyses) = idx - 1
    /\ \A i \in 1..Len(analyses) :
          /\ analyses[i].repo_name = repos[i].name
          /\ calls[i].raised =>
                /\ analyses[i].status = "UNKNOWN"
                /\ Severities(analyses[i]) = <<"warning">>
    /\ (pc = "done" /\ repos # <<>>) =>
          /\ Len(analyses) = Len(repos)
          /\ report # NoReport
          /\ report.repositories = [i \in 1..Len(repos) |-> repos[i].name]

\* a finished run in which the first of two repositories raised and the
\* second was analysed normally
C9_Witness ==
    /\ pc = "done"
    /\ Len(repos) = 2
    /\ Len(analyses) = 2
    /\ calls[1].raised
    /\ ~calls[2].raised
    /\ analyses[2].status = "FAILED"

---------------------------------------------------------------------------
(* Completion of a run, checked under LiveSpec *)

CredentialsSupplied ==
    /\ github_token # None /\ github_token # ""
    /\ github_username # None /\ github_username # ""

\* C10 as stated: once the credentials are supplied, a run that has ended
\* has produced a report.
C10_RunAlwaysReports ==
    (CredentialsSupplied /\ pc \in {"done", "exit"}) => report # NoReport

\* C10 as amended: once the credentials are supplied every run completes
\* with a normal return, whatever the sources answer; it has produced a
\* report exactly when the repository list is not empty; the process exits
\* with an error only when a credential is missing.
C10_RunCompletes ==
    /\ [](pc = "exit" => (~CredentialsSupplied /\ exit_code = 1 /\ report = NoReport))
    /\ [](pc = "done" => /\ CredentialsSupplied
                         /\ exit_code = 0
                         /\ (report # NoReport <=> repos # <<>>))
    /\ (CredentialsSupplied ~> pc = "done")

\* a run with credentials has ended without a report: no repository came back
C10_Witness ==
    /\ pc = "done"
    /\ CredentialsSupplied
    /\ repos = <<>>
    /\ report = NoReport

---------------------------------------------------------------------------
(* Properties of get_github_repos, checked under PagingSpec *)

RECURSIVE PagesReceived(_)
\* the pages of the first k requests, one after the other
PagesReceived(k) ==
    IF k = 0 THEN <<>> ELSE PagesReceived(k - 1) \o received[k].page_repos

\* the request answered with a page holding at least one record
GavePage(a) == ~a.error /\ a.page_repos # <<>>

\* what holds of the paging loop in every state
PagingInvariant ==
    LET n == Len(received)
    IN  /\ repos = PagesReceived(n)
        /\ \A k \in 1..(n - 1) :
               GavePage(received[k]) /\ Len(PagesReceived(k)) < RepoLimit
        /\ pc = "get_github_repos" =>
               /\ \A k \in 1..n : GavePage(received[k])
               /\ Len(repos) < RepoLimit
               /\ page = n + 1
        /\ pc = "repos_fetched" =>
               /\ n >= 1
               /\ \/ received[n].error
                  \/ received[n].page_repos = <<>>
                  \/ Len(repos) >= RepoLimit
               /\ Len(repos) >= RepoLimit =>
                      Len(repos) - RepoLimit <= Len(received[n].page_repos) - 1

\* C11: the paging loop ends, whatever the repository source answers: it
\* stops at the first empty page, at the first request error or as soon as
\* the accumulated count reaches 1000, never earlier and never later; the
\* list it returns is the pages received so far, in order; the list exceeds
\* 1000 by at most the size of the last page minus one.
C11_PagingLoopTerminates ==
    /\ []PagingInvariant
    /\ <>(pc = "repos_fetched")

\* the loop has stopped on the limit with 999 records ahead of a full page:
\* the list holds 1099 records
C11_Witness ==
    /\ pc = "repos_fetched"
    /\ Len(received) = 11
    /\ GavePage(received[11])
    /\ Len(received[11].page_repos) = per_page
    /\ Len(repos) = RepoLimit + per_page - 1

====
